---- MODULE Spec2Model ----
(***************************************************************************)
(* Network Status Monitor (src/main.py): the periodic connectivity check   *)
(* of class NetworkStatusMonitor as a state machine.                       *)
(*                                                                         *)
(* One tkinter event loop runs start_monitoring, stop_monitoring, the      *)
(* after() timer callback _schedule_check and the after(0) callback        *)
(* _update_status.  Every cycle starts one daemon thread running           *)
(* _check_connection, which posts its result back with root.after(0, ...). *)
(* messagebox.showinfo / showwarning are modal: the call returns only when *)
(* the dialog is dismissed, and until then a nested event loop keeps       *)
(* running the after() callbacks, so _update_status is suspended between   *)
(* its _log_history call and its final assignment to previous_status.      *)
(* The dialog holds the input grab, so the two buttons (the only callers   *)
(* of start_monitoring and stop_monitoring) cannot be pressed while it is  *)
(* open.                                                                   *)
(*                                                                         *)
(* Timestamps are left out of the log entries and alert texts.             *)
(***************************************************************************)
EXTENDS Naturals, Sequences, FiniteSets

\* ---------------------------------------------------------------- bounds
\* Probe threads started over a run (each _schedule_check that passes its
\* guard starts one).
MaxProbes == 3
\* Calls of start_monitoring / stop_monitoring over a run.
MaxCommands == 3

\* ------------------------------------------------------------- constants
\* previous_status / _monitor_job before they are set (Python None).
None == <<>>
Some(x) == <<x>>

\* HTTP status codes a completed request may return, and the outcome of a
\* request that raised requests.RequestException.
StatusCodes == {200, 399, 400, 503}
RequestException == 0
Outcomes == StatusCodes \cup {RequestException}

\* is_online with the comparison off by one: status 400 counts as online.
IsOnline_upto_400(outcome) == outcome # RequestException /\ outcome <= 400

\* is_online as computed by _check_connection from the request's outcome.
IsOnline(outcome) == outcome # RequestException /\ outcome < 400

\* The log messages of the program.
MsgStarted == "Monitoring started."
MsgStopped == "Monitoring stopped."
MsgReconnected == "RECONNECTED"
MsgDisconnected == "DISCONNECTED"
MsgInitial(is_online) ==
  IF is_online THEN "Initial status: Online" ELSE "Initial status: Offline"

\* The message a change to is_online logs, and the message box it opens
\* (showinfo "Internet reconnected" / showwarning "Internet disconnected").
TransitionMsg(is_online) ==
  IF is_online THEN MsgReconnected ELSE MsgDisconnected
AlertKind(is_online) == IF is_online THEN "Reconnected" ELSE "Disconnected"

\* The texts of the status label.
LabelIdle == "Not Monitoring"
LabelFor(is_online) == IF is_online THEN "Online" ELSE "Offline"

VARIABLES
  is_monitoring,    \* self.is_monitoring
  previous_status,  \* self.previous_status: None or Some(is_online)
  history,          \* self.history: the sequence of log messages
  monitor_job,      \* self._monitor_job: None or Some(after id)
  status_label,     \* text of self.status_label
  start_btn,        \* state of self.start_btn
  stop_btn,         \* state of self.stop_btn
  timers,           \* ids of the pending after(CHECK_INTERVAL, _schedule_check) jobs
  inflight,         \* threads running _check_connection, not yet done
  pending,          \* queue of after(0, _update_status, is_online) jobs
  dialogs,          \* stack of _update_status calls suspended in a message box
  alerts,           \* the message boxes shown so far, in order
  launched,         \* number of threads started so far (also names them)
  \* history variables, read by the properties only
  commands,         \* calls of start_monitoring / stop_monitoring so far
  session,          \* calls of start_monitoring that passed its guard
  fresh,            \* no result processed yet since the last such call
  last_reading,     \* is_online of the result processed last: None or Some(b)
  last_src,         \* the thread [id, session] whose result was processed last
  prev_src,         \* the thread whose result previous_status holds
  last_outcome,     \* outcome of the request a worker ended in the last step
  delivered,        \* calls of _update_status so far
  last_op           \* the handler that ran last

vars == <<is_monitoring, previous_status, history, monitor_job, status_label,
          start_btn, stop_btn, timers, inflight, pending, dialogs, alerts,
          launched, commands, session, fresh, last_reading, last_src,
          prev_src, last_outcome, delivered, last_op>>

\* What the program itself holds (without the history variables).
shared == <<is_monitoring, previous_status, history, monitor_job, status_label>>
buttons == <<start_btn, stop_btn>>
ghosts == <<fresh, last_reading, last_src, prev_src>>

NoThread == [id |-> 0, session |-> 0]

\* State after NetworkStatusMonitor.__init__ and _build_ui.
Init ==
  /\ is_monitoring = FALSE
  /\ previous_status = None
  /\ history = <<>>
  /\ monitor_job = None
  /\ status_label = LabelIdle
  /\ start_btn = "normal"
  /\ stop_btn = "disabled"
  /\ timers = {}
  /\ inflight = {}
  /\ pending = <<>>
  /\ dialogs = <<>>
  /\ alerts = <<>>
  /\ launched = 0
  /\ commands = 0
  /\ session = 0
  /\ fresh = FALSE
  /\ last_reading = None
  /\ last_src = NoThread
  /\ prev_src = NoThread
  /\ last_outcome = None
  /\ delivered = 0
  /\ last_op = "init"

\* _log_history that keeps only the newest entry.
log_history_overwrites(h, message) == <<message>>

\* _log_history(message): the history with the message appended.
log_history(h, message) == Append(h, message)

\* _schedule_check with the re-arming after() call left out.
schedule_check_norearm(monitoring, sess, tms) ==
  IF ~monitoring
  THEN /\ timers' = tms
       /\ UNCHANGED <<inflight, launched, monitor_job>>
  ELSE /\ launched' = launched + 1
       /\ inflight' = inflight \cup {[id |-> launched + 1, session |-> sess]}
       /\ timers' = tms
       /\ UNCHANGED monitor_job

\* _schedule_check, called with is_monitoring = monitoring in session sess
\* while the pending timers are tms: returns at once when not monitoring,
\* else starts one thread and arms the next timer, keeping its id.
schedule_check(monitoring, sess, tms) ==
  IF ~monitoring
  THEN /\ timers' = tms
       /\ UNCHANGED <<inflight, launched, monitor_job>>
  ELSE /\ launched' = launched + 1
       /\ inflight' = inflight \cup {[id |-> launched + 1, session |-> sess]}
       /\ timers' = tms \cup {launched + 1}
       /\ monitor_job' = Some(launched + 1)

\* start_monitoring without its "already running" guard.
start_monitoring_unguarded ==
  /\ dialogs = <<>>
  /\ commands < MaxCommands
  /\ launched < MaxProbes
  /\ commands' = commands + 1
  /\ last_op' = "start"
  /\ last_outcome' = None
  /\ delivered' = delivered
  /\ is_monitoring' = TRUE
  /\ previous_status' = None
  /\ start_btn' = "disabled"
  /\ stop_btn' = "normal"
  /\ history' = log_history(history, MsgStarted)
  /\ session' = session + 1
  /\ fresh' = TRUE
  /\ prev_src' = NoThread
  /\ schedule_check(TRUE, session + 1, timers)
  /\ UNCHANGED <<status_label, last_reading, last_src>>
  /\ UNCHANGED <<pending, dialogs, alerts>>

\* start_monitoring with the reset of previous_status moved above the guard.
start_monitoring_reset_first ==
  /\ dialogs = <<>>
  /\ commands < MaxCommands
  /\ is_monitoring \/ launched < MaxProbes
  /\ commands' = commands + 1
  /\ last_op' = "start"
  /\ last_outcome' = None
  /\ delivered' = delivered
  /\ previous_status' = None
  /\ prev_src' = NoThread
  /\ IF is_monitoring
     THEN UNCHANGED <<is_monitoring, history, monitor_job, status_label,
                      buttons, timers, inflight, launched, session, fresh,
                      last_reading, last_src>>
     ELSE /\ is_monitoring' = TRUE
          /\ start_btn' = "disabled"
          /\ stop_btn' = "normal"
          /\ history' = log_history(history, MsgStarted)
          /\ session' = session + 1
          /\ fresh' = TRUE
          /\ schedule_check(TRUE, session + 1, timers)
          /\ UNCHANGED <<status_label, last_reading, last_src>>
  /\ UNCHANGED <<pending, dialogs, alerts>>

\* start_monitoring without the reset of previous_status.
start_monitoring_no_reset ==
  /\ dialogs = <<>>
  /\ commands < MaxCommands
  /\ is_monitoring \/ launched < MaxProbes
  /\ commands' = commands + 1
  /\ last_op' = "start"
  /\ last_outcome' = None
  /\ delivered' = delivered
  /\ IF is_monitoring
     THEN UNCHANGED <<shared, buttons, timers, inflight, launched, session,
                      ghosts>>
     ELSE /\ is_monitoring' = TRUE
          /\ start_btn' = "disabled"
          /\ stop_btn' = "normal"
          /\ history' = log_history(history, MsgStarted)
          /\ session' = session + 1
          /\ fresh' = TRUE
          /\ schedule_check(TRUE, session + 1, timers)
          /\ UNCHANGED <<previous_status, prev_src, status_label,
                         last_reading, last_src>>
  /\ UNCHANGED <<pending, dialogs, alerts>>

\* start_monitoring().
start_monitoring ==
  /\ dialogs = <<>>
  /\ commands < MaxCommands
  /\ is_monitoring \/ launched < MaxProbes
  /\ commands' = commands + 1
  /\ last_op' = "start"
  /\ last_outcome' = None
  /\ delivered' = delivered
  /\ IF is_monitoring
     THEN UNCHANGED <<shared, buttons, timers, inflight, launched, session,
                      ghosts>>
     ELSE /\ is_monitoring' = TRUE
          /\ previous_status' = None
          /\ start_btn' = "disabled"
          /\ stop_btn' = "normal"
          /\ history' = log_history(history, MsgStarted)
          /\ session' = session + 1
          /\ fresh' = TRUE
          /\ prev_src' = NoThread
          /\ schedule_check(TRUE, session + 1, timers)
          /\ UNCHANGED <<status_label, last_reading, last_src>>
  /\ UNCHANGED <<pending, dialogs, alerts>>

\* stop_monitoring without the after_cancel call.
stop_monitoring_no_cancel ==
  /\ dialogs = <<>>
  /\ commands < MaxCommands
  /\ commands' = commands + 1
  /\ last_op' = "stop"
  /\ last_outcome' = None
  /\ delivered' = delivered
  /\ is_monitoring' = FALSE
  /\ monitor_job' = None
  /\ start_btn' = "normal"
  /\ stop_btn' = "disabled"
  /\ status_label' = LabelIdle
  /\ history' = log_history(history, MsgStopped)
  /\ UNCHANGED <<previous_status, timers, inflight, pending, dialogs, alerts,
                 launched, session, ghosts>>

\* stop_monitoring that also abandons the threads still running.
stop_monitoring_drops_threads ==
  /\ dialogs = <<>>
  /\ commands < MaxCommands
  /\ commands' = commands + 1
  /\ last_op' = "stop"
  /\ last_outcome' = None
  /\ delivered' = delivered
  /\ is_monitoring' = FALSE
  /\ IF monitor_job # None
     THEN /\ timers' = timers \ {monitor_job[1]}
          /\ monitor_job' = None
     ELSE UNCHANGED <<timers, monitor_job>>
  /\ inflight' = {}
  /\ start_btn' = "normal"
  /\ stop_btn' = "disabled"
  /\ status_label' = LabelIdle
  /\ history' = log_history(history, MsgStopped)
  /\ UNCHANGED <<previous_status, pending, dialogs, alerts, launched,
                 session, ghosts>>

\* stop_monitoring that also resets previous_status.
stop_monitoring_resets_reading ==
  /\ dialogs = <<>>
  /\ commands < MaxCommands
  /\ commands' = commands + 1
  /\ last_op' = "stop"
  /\ last_outcome' = None
  /\ delivered' = delivered
  /\ is_monitoring' = FALSE
  /\ previous_status' = None
  /\ prev_src' = NoThread
  /\ IF monitor_job # None
     THEN /\ timers' = timers \ {monitor_job[1]}
          /\ monitor_job' = None
     ELSE UNCHANGED <<timers, monitor_job>>
  /\ start_btn' = "normal"
  /\ stop_btn' = "disabled"
  /\ status_label' = LabelIdle
  /\ history' = log_history(history, MsgStopped)
  /\ UNCHANGED <<inflight, pending, dialogs, alerts, launched, session,
                 fresh, last_reading, last_src>>

\* stop_monitoring that cancels the timer but keeps its handle.
stop_monitoring_keeps_handle ==
  /\ dialogs = <<>>
  /\ commands < MaxCommands
  /\ commands' = commands + 1
  /\ last_op' = "stop"
  /\ last_outcome' = None
  /\ delivered' = delivered
  /\ is_monitoring' = FALSE
  /\ IF monitor_job # None
     THEN timers' = timers \ {monitor_job[1]}
     ELSE timers' = timers
  /\ start_btn' = "normal"
  /\ stop_btn' = "disabled"
  /\ status_label' = LabelIdle
  /\ history' = log_history(history, MsgStopped)
  /\ UNCHANGED <<previous_status, monitor_job, inflight, pending, dialogs,
                 alerts, launched, session, ghosts>>

\* stop_monitoring that leaves the two buttons as they are.
stop_monitoring_keeps_buttons ==
  /\ dialogs = <<>>
  /\ commands < MaxCommands
  /\ commands' = commands + 1
  /\ last_op' = "stop"
  /\ last_outcome' = None
  /\ delivered' = delivered
  /\ is_monitoring' = FALSE
  /\ IF monitor_job # None
     THEN /\ timers' = timers \ {monitor_job[1]}
          /\ monitor_job' = None
     ELSE UNCHANGED <<timers, monitor_job>>
  /\ status_label' = LabelIdle
  /\ history' = log_history(history, MsgStopped)
  /\ UNCHANGED <<previous_status, buttons, inflight, pending, dialogs,
                 alerts, launched, session, ghosts>>

\* stop_monitoring().
stop_monitoring ==
  /\ dialogs = <<>>
  /\ commands < MaxCommands
  /\ commands' = commands + 1
  /\ last_op' = "stop"
  /\ last_outcome' = None
  /\ delivered' = delivered
  /\ is_monitoring' = FALSE
  /\ IF monitor_job # None
     THEN /\ timers' = timers \ {monitor_job[1]}
          /\ monitor_job' = None
     ELSE UNCHANGED <<timers, monitor_job>>
  /\ start_btn' = "normal"
  /\ stop_btn' = "disabled"
  /\ status_label' = LabelIdle
  /\ history' = log_history(history, MsgStopped)
  /\ UNCHANGED <<previous_status, inflight, pending, dialogs, alerts,
                 launched, session, ghosts>>

\* A pending after(CHECK_INTERVAL, _schedule_check) job comes due: the
\* event loop removes it and calls _schedule_check.
timer_fires ==
  \E t \in timers :
    /\ ~is_monitoring \/ launched < MaxProbes
    /\ last_op' = "timer"
    /\ last_outcome' = None
    /\ delivered' = delivered
    /\ schedule_check(is_monitoring, session, timers \ {t})
    /\ UNCHANGED <<is_monitoring, previous_status, history, status_label,
                   buttons, pending, dialogs, alerts, commands, session,
                   ghosts>>

\* _check_connection that sets the status label itself instead of leaving
\* it to the event loop.
check_connection_writes_label(p) ==
  /\ p \in inflight
  /\ \E outcome \in Outcomes :
       /\ pending' = Append(pending,
                            [is_online |-> IsOnline(outcome), src |-> p])
       /\ status_label' = LabelFor(IsOnline(outcome))
       /\ last_outcome' = Some(outcome)
  /\ inflight' = inflight \ {p}
  /\ last_op' = "worker"
  /\ delivered' = delivered
  /\ UNCHANGED <<is_monitoring, previous_status, history, monitor_job,
                 buttons, timers, dialogs, alerts, launched, commands,
                 session, ghosts>>

\* _check_connection() on thread p: the request ends with some outcome and
\* the thread posts _update_status(is_online) to the event loop.
check_connection(p) ==
  /\ p \in inflight
  /\ \E outcome \in Outcomes :
       /\ pending' = Append(pending,
                            [is_online |-> IsOnline(outcome), src |-> p])
       /\ last_outcome' = Some(outcome)
  /\ inflight' = inflight \ {p}
  /\ last_op' = "worker"
  /\ delivered' = delivered
  /\ UNCHANGED <<shared, buttons, timers, dialogs, alerts, launched,
                 commands, session, ghosts>>

\* _update_status(is_online), up to its return or to the message box that
\* suspends it.
update_status ==
  /\ pending # <<>>
  /\ LET job == Head(pending)
         is_online == job.is_online
     IN /\ pending' = Tail(pending)
        /\ status_label' = LabelFor(is_online)
        /\ last_reading' = Some(is_online)
        /\ last_src' = job.src
        /\ fresh' = FALSE
        /\ IF previous_status # None /\ Some(is_online) # previous_status
           THEN /\ history' = log_history(history, TransitionMsg(is_online))
                /\ alerts' = Append(alerts, AlertKind(is_online))
                /\ dialogs' = Append(dialogs, job)
                /\ UNCHANGED <<previous_status, prev_src>>
           ELSE /\ IF previous_status = None
                   THEN history' = log_history(history, MsgInitial(is_online))
                   ELSE history' = history
                /\ previous_status' = Some(is_online)
                /\ prev_src' = job.src
                /\ UNCHANGED <<alerts, dialogs>>
  /\ last_op' = "update"
  /\ last_outcome' = None
  /\ delivered' = delivered + 1
  /\ UNCHANGED <<is_monitoring, monitor_job, buttons, timers, inflight,
                 launched, commands, session>>

\* The message box opened last is dismissed: messagebox.showinfo /
\* showwarning returns and _update_status runs its last statement.
dismiss_dialog ==
  /\ dialogs # <<>>
  /\ LET job == dialogs[Len(dialogs)]
     IN /\ previous_status' = Some(job.is_online)
        /\ prev_src' = job.src
  /\ dialogs' = SubSeq(dialogs, 1, Len(dialogs) - 1)
  /\ last_op' = "dismiss"
  /\ last_outcome' = None
  /\ delivered' = delivered
  /\ UNCHANGED <<is_monitoring, history, monitor_job, status_label, buttons,
                 timers, inflight, pending, alerts, launched, commands,
                 session, fresh, last_reading, last_src>>

Next ==
  \/ start_monitoring
  \/ stop_monitoring
  \/ timer_fires
  \/ \E p \in inflight : check_connection(p)
  \/ update_status
  \/ dismiss_dialog

Spec == Init /\ [][Next]_vars

\* The event loop runs a timer that is due: tkinter's after() jobs are
\* served also by the nested loop of an open message box.
FairSpec == Spec /\ WF_vars(timer_fires)

\* The "Start Monitoring" button is pressed: a disabled button runs no
\* command.
click_start == start_btn = "normal" /\ start_monitoring

\* The "Stop Monitoring" button is pressed.
click_stop == stop_btn = "normal" /\ stop_monitoring

NextByButtons ==
  \/ click_start
  \/ click_stop
  \/ timer_fires
  \/ \E p \in inflight : check_connection(p)
  \/ update_status
  \/ dismiss_dialog

\* The program driven through its two buttons only.
ButtonSpec == Init /\ [][NextByButtons]_vars

\* ------------------------------------------------------------ properties
\* The history h holds the message.
HasEntry(h, message) == \E i \in 1..Len(h) : h[i] = message

\* C1: a result handled while not monitoring is discarded: the step of
\* _update_status leaves previous_status, the history, the status label and
\* the alerts as they were.
C1_ResultWhileIdleDiscarded ==
  [][last_op' = "update" /\ ~is_monitoring
       => UNCHANGED <<previous_status, history, status_label, alerts>>]_vars

\* C2: at most one after(CHECK_INTERVAL, _schedule_check) job is pending,
\* whatever start, stop, timer and result steps were taken.
C2_AtMostOneTimer == Cardinality(timers) <= 1

\* start_monitoring was called twice with no stop_monitoring in between.
C2_StartedTwice ==
  /\ last_op = "start"
  /\ commands = 2
  /\ ~HasEntry(history, MsgStopped)
  /\ Cardinality(timers) = 1

\* C3: start_monitoring called while monitoring changes nothing: not the
\* flag, previous_status, the history, the timer, the threads in flight, nor
\* anything else the program holds.
C3_StartWhileRunningNoOp ==
  [][last_op' = "start" /\ is_monitoring
       => UNCHANGED <<shared, buttons, timers, inflight, pending, dialogs,
                      alerts, launched, session>>]_vars

\* A duplicate start_monitoring ran while previous_status held a reading.
C3_DuplicateStartWithReading ==
  /\ last_op = "start"
  /\ commands >= 2
  /\ session = 1
  /\ ~HasEntry(history, MsgStopped)
  /\ previous_status # None

\* C4: the first result processed after a start_monitoring that passed its
\* guard appends the one entry "Initial status: ..." of its reachability and
\* raises no alert.
C4_FirstResultInitial ==
  [][last_op' = "update" /\ fresh
       => /\ history' = Append(history, MsgInitial(Head(pending).is_online))
          /\ alerts' = alerts]_vars

\* A second session's first result was processed after the first session
\* had logged its own readings.
C4_InitialAfterRestart ==
  /\ last_op = "update"
  /\ session = 2
  /\ Len(history) >= 5
  /\ history[Len(history)] \in {MsgInitial(TRUE), MsgInitial(FALSE)}
  /\ history[Len(history) - 1] = MsgStarted
  /\ HasEntry(SubSeq(history, 1, Len(history) - 2), MsgReconnected)

\* C5: of two results processed one after the other while previous_status
\* is set, the later one is Unchanged (no log entry, no alert) when it equals
\* the earlier one, and else logs one entry and raises one alert of its kind.
C5_ConsecutiveClassification ==
  [][last_op' = "update" /\ previous_status # None /\ last_reading # None
       => LET is_online == Head(pending).is_online
          IN IF Some(is_online) = last_reading
             THEN history' = history /\ alerts' = alerts
             ELSE /\ history' = Append(history, TransitionMsg(is_online))
                  /\ alerts' = Append(alerts, AlertKind(is_online))]_vars

\* C6: previous_status only ever holds a result of a thread started in the
\* current session, and an alert is raised only for a result of the current
\* session compared with a reading of the current session.
C6_NoReadingCrossesRestart ==
  [][/\ previous_status' # None => prev_src'.session = session'
     /\ Len(alerts') > Len(alerts)
          => /\ Head(pending).src.session = session
             /\ prev_src.session = session]_vars

\* C7: stop_monitoring clears the flag and cancels the pending timer, and
\* from then until the next start_monitoring no thread is started.
C7_StopCancelsTimer ==
  /\ [][last_op' = "stop"
          => ~is_monitoring' /\ timers' = {} /\ monitor_job' = None]_vars
  /\ [][~is_monitoring /\ last_op' # "start"
          => /\ launched' = launched
             /\ inflight' \subseteq inflight
             /\ timers' = {}]_vars

\* stop_monitoring cancelled an armed timer and the event loop went on to
\* handle the result of the thread that was still running.
C7_IdleAfterArmedTimer ==
  /\ ~is_monitoring
  /\ commands = 2
  /\ session = 1
  /\ last_op = "update"
  /\ launched = 1
  /\ timers = {}

\* C8: start_monitoring from idle, in one step, resets previous_status, sets
\* the flag, starts exactly one thread and arms exactly one timer; every
\* timer firing while monitoring starts one thread and re-arms the timer;
\* and with timers firing fairly, while the flag stays set another thread
\* is started again and again (up to the bound of the model).
C8_StartLaunchesAndRepeats ==
  /\ [][last_op' = "start" /\ ~is_monitoring
          => /\ previous_status' = None
             /\ is_monitoring'
             /\ launched' = launched + 1
             /\ inflight' # inflight
             /\ Cardinality(inflight') = Cardinality(inflight) + 1
             /\ Cardinality(timers') = 1
             /\ monitor_job' # None
             /\ monitor_job'[1] \in timers']_vars
  /\ [][last_op' = "timer" /\ is_monitoring
          => /\ launched' = launched + 1
             /\ Cardinality(inflight') = Cardinality(inflight) + 1
             /\ Cardinality(timers') = 1
             /\ timers' # timers
             /\ monitor_job'[1] \in timers']_vars
  /\ \A n \in 0..(MaxProbes - 1) :
       (is_monitoring /\ launched = n) ~> (~is_monitoring \/ launched > n)

\* One session has started its thread and its timer has fired since, each
\* time starting another thread.
C8_CyclesRepeated ==
  /\ is_monitoring
  /\ session = 1
  /\ commands = 1
  /\ last_op = "timer"
  /\ launched >= 3

\* C9: the next timer is armed in the step that starts a thread, not in the
\* step that ends one, and no step takes a running thread away except that
\* thread's own completion, which posts its result.
C9_TimerArmedAtLaunch ==
  /\ [][launched' > launched
          => /\ monitor_job' = Some(launched')
             /\ launched' \in timers'
             /\ \E p \in inflight' : p.id = launched' /\ p \notin inflight]_vars
  /\ [][last_op' = "worker" => UNCHANGED <<timers, monitor_job, launched>>]_vars
  /\ [][\A p \in inflight :
          \/ p \in inflight'
          \/ /\ last_op' = "worker"
             /\ Len(pending') = Len(pending) + 1
             /\ pending'[Len(pending')].src = p]_vars

\* Two threads ran at once and the result of the one started first was
\* processed last.
C9_OutOfOrderDelivery ==
  /\ last_op = "update"
  /\ launched = 2
  /\ inflight = {}
  /\ pending = <<>>
  /\ dialogs = <<>>
  /\ last_src.id = 1
  /\ prev_src.id = 1

\* Two threads are running _check_connection at the same time.
OverlappingProbes == Cardinality(inflight) >= 2

\* C10: a step of a worker thread leaves the flag, previous_status, the
\* history, the timer handle and the status label unchanged; whatever
\* changes one of them is a step of the event loop.
C10_WorkerWritesNothing ==
  /\ [][last_op' = "worker"
          => UNCHANGED <<shared, buttons, timers, alerts, dialogs>>]_vars
  /\ [][~UNCHANGED shared
          => last_op' \in {"start", "stop", "timer", "update", "dismiss"}]_vars

\* A worker posted its result while the program was monitoring and held a
\* reading.
C10_WorkerPosted ==
  /\ last_op = "worker"
  /\ pending # <<>>
  /\ is_monitoring
  /\ previous_status # None
  /\ status_label # LabelFor(pending[Len(pending)].is_online)

\* h is a prefix of g.
IsPrefix(h, g) == Len(h) <= Len(g) /\ SubSeq(g, 1, Len(h)) = h

\* C11: the history is append-only: in every step the old history is a
\* prefix of the new one, also across stop_monitoring / start_monitoring.
C11_HistoryAppendOnly == [][IsPrefix(history, history')]_vars

\* The history grew over a stop and a restart.
C11_HistoryAcrossRestart ==
  /\ session = 2
  /\ Len(history) >= 4
  /\ history[1] = MsgStarted
  /\ HasEntry(history, MsgStopped)
  /\ last_op = "update"
  /\ history[Len(history)] \in {MsgInitial(TRUE), MsgInitial(FALSE)}

\* The ids of the threads that are running or whose result is queued.
OpenIds == {p.id : p \in inflight} \cup {pending[i].src.id : i \in 1..Len(pending)}

C13_NoWaitOnAlert ==
  [][/\ last_op' = "update" /\ ~fresh /\ last_reading # None
          => /\ previous_status = last_reading
             /\ Len(alerts') - Len(alerts)
                  = IF Some(Head(pending).is_online) = last_reading
                    THEN 0 ELSE 1
     /\ previous_status' # None /\ dialogs' = <<>>
          => previous_status' = last_reading']_vars

\* C14: is_monitoring changes only in start_monitoring and stop_monitoring
\* (not in the timer callback, the worker or the result handler), and
\* previous_status goes back to unset only in start_monitoring.
C14_FlagOwnedByStartStop ==
  /\ [][is_monitoring' # is_monitoring => last_op' \in {"start", "stop"}]_vars
  /\ [][last_op' \in {"timer", "worker", "update", "dismiss"}
          => is_monitoring' = is_monitoring]_vars
  /\ [][previous_status # None /\ previous_status' = None
          => last_op' = "start" /\ ~is_monitoring]_vars
  /\ [][last_op' \in {"stop", "timer"}
          => previous_status' = previous_status]_vars

\* stop_monitoring ran while previous_status held a reading, and kept it.
C14_StopKeptReading ==
  /\ last_op = "stop"
  /\ ~is_monitoring
  /\ session >= 1
  /\ previous_status # None

\* C15: between event-loop steps the timer handle follows the flag: while
\* idle no timer is pending and _monitor_job is unset, while monitoring
\* exactly one timer is pending and _monitor_job names it.
C15_TimerTracksFlag ==
  IF is_monitoring
  THEN Cardinality(timers) = 1 /\ monitor_job # None /\ monitor_job[1] \in timers
  ELSE timers = {} /\ monitor_job = None

\* A second session is running on the timer its own callback re-armed.
C15_RearmedAfterRestart ==
  /\ is_monitoring
  /\ session = 2
  /\ last_op = "timer"
  /\ Cardinality(timers) = 1

\* The "Monitoring started." / "Monitoring stopped." entries of h, in order.
RECURSIVE StartStopEntries(_)
StartStopEntries(h) ==
  IF h = <<>> THEN <<>>
  ELSE IF Head(h) \in {MsgStarted, MsgStopped}
       THEN <<Head(h)>> \o StartStopEntries(Tail(h))
       ELSE StartStopEntries(Tail(h))

\* The entries of h alternate started, stopped, started, ...
Alternates(h) ==
  LET e == StartStopEntries(h)
  IN \A i \in 1..Len(e) :
       e[i] = IF i % 2 = 1 THEN MsgStarted ELSE MsgStopped

\* Every "Initial status" entry of h follows a "Monitoring started." entry
\* with no other "Initial status" entry between the two.
InitialFollowsStart(h) ==
  \A i \in 1..Len(h) :
    h[i] \in {MsgInitial(TRUE), MsgInitial(FALSE)}
      => \E j \in 1..(i - 1) :
           /\ h[j] = MsgStarted
           /\ \A k \in (j + 1)..(i - 1) :
                h[k] \notin {MsgInitial(TRUE), MsgInitial(FALSE)}

\* C16: the buttons mirror the flag (Start enabled iff idle, Stop enabled
\* iff monitoring), and with start and stop invoked through enabled buttons
\* only the started / stopped entries alternate, starting with started, and
\* every "Initial status" entry follows a start with no other between.
C16_ButtonsMirrorFlag ==
  /\ (start_btn = "normal") <=> ~is_monitoring
  /\ (stop_btn = "normal") <=> is_monitoring
  /\ start_btn \in {"normal", "disabled"}
  /\ stop_btn \in {"normal", "disabled"}
  /\ Alternates(history)
  /\ InitialFollowsStart(history)

\* Two sessions were run through the buttons, each logging its first
\* reading.
C16_TwoSessionsByButtons ==
  /\ session = 2
  /\ commands = 3
  /\ start_btn = "disabled"
  /\ stop_btn = "normal"
  /\ Len(history) >= 5
  /\ StartStopEntries(history) = <<MsgStarted, MsgStopped, MsgStarted>>
  /\ history[Len(history)] \in {MsgInitial(TRUE), MsgInitial(FALSE)}

====
